---- MODULE Spec2Model ----
(***************************************************************************)
(* Response envelope / dispatcher (pkg/courierhttp/payload.go) and the     *)
(* OpenAPI route scanner (package openapi) of courier.                     *)
(*                                                                         *)
(* Strings whose characters matter to the code (header names, schema       *)
(* references, route paths) are sequences of one-character strings.        *)
(***************************************************************************)
EXTENDS Integers, Sequences, FiniteSets, TLC

VARIABLES
    v,            \* response.v           the wrapped value
    meta,         \* response.meta        key -> value list (nil map = empty map)
    cookies,      \* response.cookies     list of *http.Cookie (nil = empty)
    location,     \* response.location    *url.URL, NoLoc when nil
    contentType,  \* response.contentType "" when unset
    statusCode,   \* response.statusCode  0 when unset
    rw,           \* the http.ResponseWriter: header map and the calls made on it
    ret,          \* what WriteResponse returned
    pc,           \* position of the envelope's owner
    entry,        \* the envelope and request as WriteResponse found them
    hist,         \* history of the configuration calls
    schemas,      \* scanner.o.Components.Schemas: registry key -> schema
    lastReg,      \* the last RegisterSchema call and what it found
    route,        \* the route handed to scanner.scan
    op,           \* the operation scan builds for it
    doc,          \* scanner.o: (method, path) -> operation
    spc,          \* position of the scanner
    build,        \* FromRouter: the route list, the loop index, what it returned
    rec           \* scanner.m and the Record calls in progress

envVars == <<v, meta, cookies, location, contentType, statusCode, rw, ret, pc, entry, hist>>

scanVars == <<schemas, lastReg, route, op, doc, spc, build, rec>>

vars == <<envVars, scanVars>>

(***************************************************************************)
(* Character helpers                                                       *)
(***************************************************************************)
LowerLetters == <<"a", "c", "e", "n", "o", "p", "t", "x", "y">>
UpperLetters == <<"A", "C", "E", "N", "O", "P", "T", "X", "Y">>

IsLower(c) == \E i \in DOMAIN LowerLetters : LowerLetters[i] = c
IsUpper(c) == \E i \in DOMAIN UpperLetters : UpperLetters[i] = c

ToUpper(c) ==
    IF IsLower(c) THEN UpperLetters[CHOOSE i \in DOMAIN LowerLetters : LowerLetters[i] = c]
    ELSE c

ToLower(c) ==
    IF IsUpper(c) THEN LowerLetters[CHOOSE i \in DOMAIN UpperLetters : UpperLetters[i] = c]
    ELSE c

\* a byte net/textproto accepts in a header field name
ValidHeaderFieldByte(c) == IsLower(c) \/ IsUpper(c) \/ c = "-"

\* textproto.CanonicalMIMEHeaderKey: first letter and letters after '-' upper
\* case, the rest lower case; a key with an invalid byte is returned unchanged
CanonicalMIMEHeaderKey(s) ==
    IF \E i \in DOMAIN s : ~ValidHeaderFieldByte(s[i]) THEN s
    ELSE [i \in DOMAIN s |->
            IF i = 1 \/ s[i - 1] = "-" THEN ToUpper(s[i]) ELSE ToLower(s[i])]

HdrContentType == <<"C", "o", "n", "t", "e", "n", "t", "-", "T", "y", "p", "e">>
HdrSetCookie   == <<"S", "e", "t", "-", "C", "o", "o", "k", "i", "e">>
HdrLocation    == <<"L", "o", "c", "a", "t", "i", "o", "n">>

\* m[k] = val on a Go map
Put(m, k, val) == [x \in (DOMAIN m) \cup {k} |-> IF x = k THEN val ELSE m[x]]

EmptyMap == <<>>

(***************************************************************************)
(* Values a handler can wrap, described by the capabilities the dispatcher *)
(* asks for with type assertions.                                          *)
(***************************************************************************)
NoLoc == "nil"

StatusNoContent == 204
StatusCreated == 201
StatusOK == 200

Val(isNil, writer, err, errStatus, hasSC, sc, loc, shape, closer) ==
    [nil |-> isNil, writer |-> writer, err |-> err, errStatus |-> errStatus,
     statusErr |-> FALSE, hasSC |-> hasSC, sc |-> sc, loc |-> loc,
     shape |-> shape, closer |-> closer]

NilValue     == Val(TRUE, FALSE, FALSE, 0, FALSE, 0, NoLoc, "plain", FALSE)
Data         == Val(FALSE, FALSE, FALSE, 0, FALSE, 0, NoLoc, "plain", FALSE)
DataStatus0  == Val(FALSE, FALSE, FALSE, 0, TRUE, 0, NoLoc, "plain", FALSE)
DataAccepted == Val(FALSE, FALSE, FALSE, 0, TRUE, 202, NoLoc, "plain", FALSE)
Redirector   == Val(FALSE, FALSE, FALSE, 0, TRUE, 302, "/v", "plain", FALSE)
ErrNotFound  == Val(FALSE, FALSE, TRUE, 404, FALSE, 0, NoLoc, "plain", FALSE)
ErrStream    == Val(FALSE, FALSE, TRUE, 500, TRUE, 418, NoLoc, "reader", TRUE)
Responder    == Val(FALSE, TRUE, FALSE, 0, FALSE, 0, NoLoc, "plain", FALSE)
ResultValue  == Val(FALSE, FALSE, FALSE, 0, FALSE, 0, NoLoc, "result", FALSE)
ReadCloser   == Val(FALSE, FALSE, FALSE, 0, FALSE, 0, NoLoc, "reader", TRUE)
Reader       == Val(FALSE, FALSE, FALSE, 0, FALSE, 0, NoLoc, "reader", FALSE)

Values == {NilValue, Data, DataStatus0, DataAccepted, Redirector, ErrNotFound,
           ErrStream, Responder, ResultValue, ReadCloser, Reader}

IsResponseWriter(x) == x.writer                 \* x.(ResponseWriter)
IsError(x) == x.err                             \* x.(error)
IsStatusCodeDescriber(x) == x.hasSC             \* x.(StatusCodeDescriber)
IsRedirectDescriber(x) == x.hasSC /\ x.loc # NoLoc  \* x.(RedirectDescriber)

\* statuserror.FromErr: the structured status error of an error
FromErr(e) ==
    [nil |-> FALSE, writer |-> FALSE, err |-> TRUE, errStatus |-> e.errStatus,
     statusErr |-> TRUE, hasSC |-> TRUE, sc |-> e.errStatus, loc |-> NoLoc,
     shape |-> "plain", closer |-> FALSE]

(***************************************************************************)
(* Inputs of the configuration calls and of a request                      *)
(***************************************************************************)
Methods == {"GET", "POST"}
StatusCodes == {202, 204}
Locations == {"/a"}
ContentTypes == {"text/plain"}

KeyLower == <<"x", "-", "a">>
KeyUpper == <<"X", "-", "A">>
KeyContentType == <<"c", "o", "n", "t", "e", "n", "t", "-", "t", "y", "p", "e">>
MetaKeys == {KeyLower, KeyUpper, KeyContentType}
MetaValues == {<<"1">>, <<"2", "3">>}

Cookie(name, value) == [nil |-> FALSE, name |-> name, value |-> value]
NilCookie == [nil |-> TRUE, name |-> "", value |-> ""]
CookieLists == {<<Cookie("a", "1")>>, <<NilCookie, Cookie("b", "2")>>}

\* (*http.Cookie).String for a valid cookie without attributes
CookieString(c) == c.name \o "=" \o c.value

(***************************************************************************)
(* The transport                                                           *)
(***************************************************************************)
Event(ev, key, code) == [ev |-> ev, key |-> key, code |-> code]

NewResponseWriter == [header |-> EmptyMap, log |-> <<>>, body |-> <<>>]

\* header[key] = values
SetHeader(w, key, values) ==
    [w EXCEPT !.header = Put(w.header, key, values),
              !.log = Append(w.log, Event("Header", key, 0))]

\* Header().Add(key, value)
AddHeader(w, key, value) ==
    [w EXCEPT !.header = Put(w.header, key,
                  IF key \in DOMAIN w.header THEN Append(w.header[key], value)
                  ELSE <<value>>),
              !.log = Append(w.log, Event("Header", key, 0))]

\* rw.WriteHeader(code)
WriteHeader(w, code) == [w EXCEPT !.log = Append(w.log, Event("WriteHeader", <<>>, code))]

\* a body-writing step `step` wrote the value `val`
WriteBody(w, step, val) ==
    [w EXCEPT !.log = Append(w.log, Event(step, <<>>, 0)),
              !.body = Append(w.body, val)]

Mark(w, ev) == [w EXCEPT !.log = Append(w.log, Event(ev, <<>>, 0))]

(***************************************************************************)
(* Configuration calls (ResponseSetting); Wrap applies its options by      *)
(* calling them in order on the new envelope.                              *)
(***************************************************************************)
\* the number of configuration calls made on one envelope
MaxCalls == 4

NoHistory ==
    [meta |-> EmptyMap, cookies |-> <<>>, lastKey |-> EmptyMap,
     replacedMeta |-> FALSE, replacedCookies |-> FALSE, calls |-> 0]

MayConfigure == pc = "wrapped" /\ hist.calls < MaxCalls

Called(h) == [h EXCEPT !.calls = h.calls + 1]

\* a setter that merges into the list already held
MetaAppend(m, key, values) ==
    Put(m, key, IF key \in DOMAIN m THEN m[key] \o values ELSE values)

\* r.meta[key] = values
MetaAssign(m, key, values) == Put(m, key, values)

\* r.cookies = cookies
CookiesAssign(old, new) == new

SetStatusCode(code) ==
    /\ MayConfigure
    /\ statusCode' = code
    /\ hist' = Called(hist)
    /\ UNCHANGED <<scanVars, v, meta, cookies, location, contentType, rw, ret, pc, entry>>

SetContentType(ct) ==
    /\ MayConfigure
    /\ contentType' = ct
    /\ hist' = Called(hist)
    /\ UNCHANGED <<scanVars, v, meta, cookies, location, statusCode, rw, ret, pc, entry>>

SetLocation(loc) ==
    /\ MayConfigure
    /\ location' = loc
    /\ hist' = Called(hist)
    /\ UNCHANGED <<scanVars, v, meta, cookies, contentType, statusCode, rw, ret, pc, entry>>

SetMetadata(key, values) ==
    /\ MayConfigure
    /\ meta' = MetaAssign(meta, key, values)
    /\ hist' = [Called(hist) EXCEPT
                  !.meta = Put(hist.meta, key, values),
                  !.lastKey = Put(hist.lastKey, CanonicalMIMEHeaderKey(key), key),
                  !.replacedMeta = hist.replacedMeta
                      \/ (key \in DOMAIN hist.meta /\ hist.meta[key] # values)]
    /\ UNCHANGED <<scanVars, v, cookies, location, contentType, statusCode, rw, ret, pc, entry>>

SetCookies(list) ==
    /\ MayConfigure
    /\ cookies' = CookiesAssign(cookies, list)
    /\ hist' = [Called(hist) EXCEPT
                  !.cookies = list,
                  !.replacedCookies = hist.replacedCookies
                      \/ (hist.cookies # <<>> /\ hist.cookies # list)]
    /\ UNCHANGED <<scanVars, v, meta, location, contentType, statusCode, rw, ret, pc, entry>>

\* r.meta
Meta == meta

\* r.cookies
Cookies == cookies

\* r.v.(T): the assertion panics on a nil interface
Underlying == [panics |-> v.nil, value |-> v]

(***************************************************************************)
(* WriteResponse, step by step                                             *)
(***************************************************************************)
\* a dispatcher that keeps working on the error itself
Unconverted(val) == val

\* resp := r.v, converted when it is an error
Converted(val) == IF IsError(val) THEN FromErr(val) ELSE val

\* the status-code capability step
DescribedStatus(resp, sc) == IF IsStatusCodeDescriber(resp) THEN resp.sc ELSE sc

\* inference that ignores the request method
InferredStatusAnyMethod(resp, sc, method) ==
    IF sc = 0 THEN IF resp.nil THEN StatusNoContent ELSE StatusOK ELSE sc

\* default inference when the status is still 0
InferredStatus(resp, sc, method) ==
    IF sc = 0
    THEN IF resp.nil THEN StatusNoContent
         ELSE IF method = "POST" THEN StatusCreated ELSE StatusOK
    ELSE sc

\* the redirect capability step
RedirectStatus(resp, sc, loc) ==
    IF loc = NoLoc /\ IsRedirectDescriber(resp) THEN resp.sc ELSE sc

\* a redirect step that never adopts the location of the value
RedirectLocationKept(resp, loc) == loc

RedirectLocation(resp, loc) ==
    IF loc = NoLoc /\ IsRedirectDescriber(resp) THEN resp.loc ELSE loc

\* the orders in which `range r.meta` may visit the keys
Orders(m) ==
    {o \in [1 .. Cardinality(DOMAIN m) -> DOMAIN m] :
        \A i, j \in DOMAIN o : i # j => o[i] # o[j]}

\* for key, values := range r.meta { header[Canonical(key)] = values }
RECURSIVE WriteMeta(_, _, _)
WriteMeta(w, m, order) ==
    IF order = <<>> THEN w
    ELSE WriteMeta(SetHeader(w, CanonicalMIMEHeaderKey(Head(order)), m[Head(order)]),
                   m, Tail(order))

\* a dispatcher that drops the cookies
CookiesDropped(w, cs) == w

\* http.SetCookie for every non-nil cookie of the list
RECURSIVE WriteCookies(_, _)
WriteCookies(w, cs) ==
    IF cs = <<>> THEN w
    ELSE WriteCookies(IF Head(cs).nil THEN w
                      ELSE AddHeader(w, HdrSetCookie, CookieString(Head(cs))),
                      Tail(cs))

\* http.Redirect(rw, req, url, code)
Redirect(w, method, url, code) ==
    LET hadType == HdrContentType \in DOMAIN w.header
        w1 == SetHeader(w, HdrLocation, <<url>>)
        w2 == IF ~hadType /\ method = "GET"
              THEN SetHeader(w1, HdrContentType, <<"text/html; charset=utf-8">>)
              ELSE w1
        w3 == WriteHeader(w2, code)
    IN IF ~hadType /\ method = "GET" THEN Mark(w3, "RedirectBody") ELSE w3

\* a dispatcher without the early return for 204
NeverNoContent(sc) == FALSE

\* r.statusCode == http.StatusNoContent
IsNoContent(sc) == sc = StatusNoContent

\* if r.contentType != "" { rw.Header().Set("Content-Type", r.contentType) }
WithContentTypeHeader(w, ct) ==
    IF ct # "" THEN SetHeader(w, HdrContentType, <<ct>>) ELSE w

\* the codec's EncodeTo: content type, status from the context, body
EncodeTo(w, resp, sc, ct) ==
    WriteBody(WriteHeader(SetHeader(w, HdrContentType,
                                    <<IF ct = "" THEN "application/json" ELSE ct>>),
                          sc),
              "Encode", resp)

\* a byte-stream step that leaves the reader open
NeverClosed(w, resp) == w

\* the deferred Close of a reader that is an io.Closer
CloseAfterCopy(w, resp) == IF resp.closer THEN Mark(w, "Close") ELSE w

\* switch v := resp.(type): what is written and what is returned
BodyStep(w, resp, sc, ct, outcome) ==
    CASE resp.shape = "result" ->
            IF outcome = "ok"
            THEN [rw |-> WriteBody(WriteHeader(w, sc), "Into", resp), ret |-> "nil"]
            ELSE [rw |-> Mark(WriteHeader(w, sc), "IntoFailed"), ret |-> "ErrInto"]
      [] resp.shape = "reader" ->
            IF outcome = "ok"
            THEN [rw |-> CloseAfterCopy(WriteBody(WriteHeader(w, sc), "Copy", resp), resp),
                  ret |-> "nil"]
            ELSE [rw |-> CloseAfterCopy(Mark(WriteHeader(w, sc), "CopyFailed"), resp),
                  ret |-> "ErrCopy"]
      [] OTHER ->
            IF outcome = "failNew"
            THEN [rw |-> w, ret |-> "ErrNewTransformer"]
            ELSE IF outcome = "ok"
            THEN [rw |-> EncodeTo(w, resp, sc, ct), ret |-> "nil"]
            ELSE [rw |-> Mark(w, "EncodeFailed"), ret |-> "ErrEncode"]

Outcomes == {"ok", "fail", "failNew"}

\* a dispatcher without the deferred release
Kept(val) == val

\* defer func() { r.v = nil }()
Released(val) == NilValue

\* everything after the delegation test
Dispatch(val, sc0, loc0, ct, m, cs, method, order, outcome) ==
    LET resp == Converted(val)
        sc1  == DescribedStatus(resp, sc0)
        sc2  == InferredStatus(resp, sc1, method)
        sc3  == RedirectStatus(resp, sc2, loc0)
        loc  == RedirectLocation(resp, loc0)
        w1   == WriteMeta(NewResponseWriter, m, order)
        w2   == WriteCookies(w1, cs)
    IN  IF loc # NoLoc
        THEN [rw |-> Redirect(w2, method, loc, sc3), ret |-> "nil",
              statusCode |-> sc3, location |-> loc]
        ELSE IF IsNoContent(sc3)
        THEN [rw |-> WriteHeader(w2, sc3), ret |-> "nil",
              statusCode |-> sc3, location |-> loc]
        ELSE LET b == BodyStep(WithContentTypeHeader(w2, ct), resp, sc3, ct, outcome)
             IN [rw |-> b.rw, ret |-> b.ret, statusCode |-> sc3, location |-> loc]

Snapshot(method, order, delegate) ==
    [v |-> v, statusCode |-> statusCode, location |-> location,
     contentType |-> contentType, method |-> method, order |-> order,
     meta |-> meta, cookies |-> cookies, delegate |-> delegate]

\* a dispatcher that reports success whatever the delegate returned
DelegateSwallowed(result) == "nil"

\* return respWriter.WriteResponse(ctx, rw, req)
DelegateReturn(result) == result

\* the wrapped value is itself a ResponseWriter: its result is returned
Delegate(method, result) ==
    /\ pc = "wrapped"
    /\ IsResponseWriter(v)
    /\ entry' = Snapshot(method, <<>>, result)
    /\ rw' = Mark(rw, "Delegate")
    /\ ret' = DelegateReturn(result)
    /\ v' = Released(v)
    /\ pc' = "returned"
    /\ UNCHANGED <<scanVars, meta, cookies, location, contentType, statusCode, hist>>

WriteResponse(method, order, outcome) ==
    /\ pc = "wrapped"
    /\ ~IsResponseWriter(v)
    /\ LET d == Dispatch(v, statusCode, location, contentType, meta, cookies,
                         method, order, outcome)
       IN /\ rw' = d.rw
          /\ ret' = d.ret
          /\ statusCode' = d.statusCode
          /\ location' = d.location
    /\ entry' = Snapshot(method, order, "none")
    /\ v' = Released(v)
    /\ pc' = "returned"
    /\ UNCHANGED <<scanVars, meta, cookies, contentType, hist>>

NoEntry ==
    [v |-> NilValue, statusCode |-> 0, location |-> NoLoc, contentType |-> "",
     method |-> "GET", order |-> <<>>, meta |-> EmptyMap, cookies |-> <<>>,
     delegate |-> "none"]

(***************************************************************************)
(* Schema registry of the scanner                                          *)
(***************************************************************************)
SchemaPrefix ==
    <<"#", "/", "c", "o", "m", "p", "o", "n", "e", "n", "t", "s", "/",
      "s", "c", "h", "e", "m", "a", "s", "/">>

Chars(s) == {s[i] : i \in DOMAIN s}

\* strings.TrimLeft(s, cutset): drops leading characters that are in cutset
RECURSIVE TrimLeft(_, _)
TrimLeft(s, cutset) ==
    IF s # <<>> /\ Head(s) \in cutset THEN TrimLeft(Tail(s), cutset) ELSE s

\* "#/components/schemas/" followed by the short name the naming option gives
RefString(name) == SchemaPrefix \o name

\* n := strings.TrimLeft(ref, "#/components/schemas/")
RegistryKey(ref) == TrimLeft(ref, Chars(SchemaPrefix))

\* a registry in which the last registration wins
RegisteredLastWins(sch, ref, s) == Put(sch, RegistryKey(ref), s)

\* the registry after RegisterSchema(ref, s)
Registered(sch, ref, s) ==
    IF RegistryKey(ref) \notin DOMAIN sch THEN Put(sch, RegistryKey(ref), s) ELSE sch

TypeSchema(t) == [kind |-> "type", of |-> t]
DescriptionSchema(text) == [kind |-> "description", text |-> text]
AllOf(a, b) == [kind |-> "allOf", parts |-> <<a, b>>]
NoSchema == [kind |-> "none"]

\* length of the short names and number of registrations explored
MaxNameLen == 2
MaxRegs == 3

NameChars == {"C", "s"}
ShortNames == UNION {[1 .. n -> NameChars] : n \in 1 .. MaxNameLen}
RegistrySchemas == {TypeSchema(<<"A">>), TypeSchema(<<"B">>)}

NoReg == [calls |-> 0, name |-> <<>>, schema |-> NoSchema, held |-> FALSE, prior |-> NoSchema]

RegisterSchema(name, s) ==
    /\ spc = "registry"
    /\ lastReg.calls < MaxRegs
    /\ schemas' = Registered(schemas, RefString(name), s)
    /\ lastReg' = [calls |-> lastReg.calls + 1, name |-> name, schema |-> s,
                   held |-> RegistryKey(RefString(name)) \in DOMAIN schemas,
                   prior |-> IF RegistryKey(RefString(name)) \in DOMAIN schemas
                             THEN schemas[RegistryKey(RefString(name))] ELSE NoSchema]
    /\ UNCHANGED <<envVars, route, op, doc, spc, build, rec>>

(***************************************************************************)
(* scanner.scan of one route                                               *)
(***************************************************************************)
Field(name, display, in, omitempty, documented) ==
    [name |-> name, display |-> display, in |-> in, omitempty |-> omitempty,
     documented |-> documented, type |-> <<"s", "t", "r", "i", "n", "g">>, named |-> FALSE]

\* what the terminal operator's handler exposes
Handler(method, hasStatus, status, hasContentType, type, hasContent, content, hasErrors, errors) ==
    [method |-> method, hasStatus |-> hasStatus, status |-> status,
     hasContentType |-> hasContentType, contentType |-> type,
     hasContent |-> hasContent, content |-> content,
     hasErrors |-> hasErrors, errors |-> errors]

\* a sentinel error with the status code and summary statuserror.FromErr gives it
SentinelError(status, summary) ==
    [status |-> status, summary |-> summary, type |-> <<"E">>]

NoHandler == Handler("", FALSE, 0, FALSE, "", FALSE, <<>>, FALSE, <<>>)

Operator(fields, docer, isLast, handler) ==
    [fields |-> fields, docer |-> docer, isLast |-> isLast, handler |-> handler]

NewOperation(id) ==
    [id |-> id, parameters |-> <<>>, requestBody |-> EmptyMap, hasBody |-> FALSE,
     responses |-> EmptyMap, tagged |-> FALSE, panic |-> <<>>]

Parameter(name, in, schema, required) ==
    [name |-> name, in |-> in, schema |-> schema, required |-> required]

\* extractors.SchemaFrom with the scanner as register: the schema of a type;
\* a named type is registered under its reference and referred to
SchemaFromType(t) == IF t = <<>> THEN NoSchema ELSE TypeSchema(t)

\* docer.RuntimeDoc(field.Name()): the lines of text and whether there are any
RuntimeDoc(f) == [lines |-> <<"about", f.name>>, ok |-> f.documented]

\* strings.Join(lines, "\n")
JoinLines(lines) == lines

\* a body step that lets the description stand for the schema
BodySchemaReplaced(schema, f, docer) ==
    IF docer /\ RuntimeDoc(f).ok
    THEN DescriptionSchema(JoinLines(RuntimeDoc(f).lines))
    ELSE schema

\* s := schema, merged with the description when the owning type documents the field
BodySchema(schema, f, docer) ==
    IF docer /\ RuntimeDoc(f).ok
    THEN IF schema = NoSchema
         THEN DescriptionSchema(JoinLines(RuntimeDoc(f).lines))
         ELSE AllOf(schema, DescriptionSchema(JoinLines(RuntimeDoc(f).lines)))
    ELSE schema

\* a walk that accepts a field without location
MissingTagIgnored(f) == FALSE

\* location == ""
MissingTag(f) == f.in = ""

\* the body of the EachField callback for one field
ScanField(o, f, docer) ==
    IF MissingTag(f) THEN [o EXCEPT !.panic = <<"missing tag in", f.name, o.id>>]
    ELSE LET schema == SchemaFromType(f.type) IN
      CASE f.in = "body" ->
             [o EXCEPT !.hasBody = TRUE,
                       !.requestBody = Put(o.requestBody, "application/json",
                                           BodySchema(schema, f, docer))]
        [] f.in = "query" ->
             [o EXCEPT !.parameters = Append(o.parameters,
                            Parameter(f.display, "query", schema, ~f.omitempty))]
        [] f.in = "cookie" ->
             [o EXCEPT !.parameters = Append(o.parameters,
                            Parameter(f.display, "cookie", schema, ~f.omitempty))]
        [] f.in = "header" ->
             [o EXCEPT !.parameters = Append(o.parameters,
                            Parameter(f.display, "header", schema, ~f.omitempty))]
        [] f.in = "path" ->
             [o EXCEPT !.parameters = Append(o.parameters,
                            Parameter(f.display, "path", schema, TRUE))]
        [] OTHER -> o

\* typesx.EachField over the operator's input type; a panic ends the walk
RECURSIVE ScanParameterOrRequestBody(_, _, _)
ScanParameterOrRequestBody(o, fields, docer) ==
    IF fields = <<>> \/ o.panic # <<>> THEN o
    ELSE ScanParameterOrRequestBody(ScanField(o, Head(fields), docer), Tail(fields), docer)

MediaType(schema) == [schema |-> schema]
Response(content, errors) == [content |-> content, returnErrors |-> errors]

\* an extension that lists every declared summary under every code
SummariesAll(errors, code) == [i \in DOMAIN errors |-> errors[i].summary]

\* summaries of the declared errors that map to the status code
RECURSIVE SummariesAt(_, _)
SummariesAt(errors, code) ==
    IF errors = <<>> THEN <<>>
    ELSE IF Head(errors).status = code
         THEN <<Head(errors).summary>> \o SummariesAt(Tail(errors), code)
         ELSE SummariesAt(Tail(errors), code)

\* one error response per status code of the declared errors
RECURSIVE AddErrorResponses(_, _, _)
AddErrorResponses(responses, errors, codes) ==
    IF codes = {} THEN responses
    ELSE LET code == CHOOSE c \in codes : TRUE IN
         AddErrorResponses(
             Put(responses, code,
                 Response(Put(EmptyMap, "application/json",
                              MediaType(SchemaFromType(errors[1].type))),
                          SummariesAt(errors, code))),
             errors, codes \ {code})

\* a derivation that documents every verb as 200
SuccessStatusOK(h) == StatusOK

\* the status code of the success response of a handler with a verb
SuccessStatus(h) ==
    IF h.hasStatus THEN h.status
    ELSE IF h.method = "POST" THEN StatusCreated ELSE StatusOK

ScanResponse(o, h) ==
    IF h.method = "" THEN o
    ELSE LET code == SuccessStatus(h)
             ct == IF h.hasContentType THEN h.contentType ELSE "application/json"
             content == IF h.hasContent
                        THEN IF h.content # <<>>
                             THEN Put(EmptyMap, ct, MediaType(SchemaFromType(h.content)))
                             ELSE EmptyMap
                        ELSE Put(EmptyMap, ct, MediaType(NoSchema))
             success == Put(o.responses, code, Response(content, <<>>))
         IN [o EXCEPT !.responses =
                IF h.hasErrors
                THEN AddErrorResponses(success, h.errors,
                                       {h.errors[i].status : i \in DOMAIN h.errors})
                ELSE success]

\* for _, o := range rh.Operators() { ... }
RECURSIVE ScanOperators(_, _)
ScanOperators(o, operators) ==
    IF operators = <<>> \/ o.panic # <<>> THEN o
    ELSE LET x == Head(operators)
             o1 == ScanParameterOrRequestBody(o, x.fields, x.docer)
             o2 == IF o1.panic = <<>> /\ x.isLast
                   THEN ScanResponse([o1 EXCEPT !.tagged = TRUE], x.handler)
                   ELSE o1
         IN ScanOperators(o2, Tail(operators))

\* whether a path parameter of that name was declared on the operation
IsParameterDefined(o, name) ==
    \E i \in DOMAIN o.parameters :
        o.parameters[i].in = "path" /\ o.parameters[i].name = name

\* a replacement that does not look at the declared parameters
PatchedSegmentUnchecked(o, name) == <<"/", "{">> \o name \o <<"}">>

\* the replacement of one match "/" marker name
PatchedSegment(o, name) ==
    IF IsParameterDefined(o, name) THEN <<"/", "{">> \o name \o <<"}">>
    ELSE <<"/", "0">>

\* the longest prefix of s without '/': what ([^/]+) takes
RECURSIVE UpToSlash(_)
UpToSlash(s) ==
    IF s = <<>> \/ Head(s) = "/" THEN <<>> ELSE <<Head(s)>> \o UpToSlash(Tail(s))

Drop(s, n) == SubSeq(s, n + 1, Len(s))

\* whether "/[*:]([^/]+)" matches at the start of s
MatchesAtStart(s) ==
    /\ Len(s) >= 3
    /\ s[1] = "/"
    /\ s[2] \in {"*", ":"}
    /\ s[3] # "/"

\* reHttpRouterPath.ReplaceAllStringFunc(path, ...): leftmost matches, left to right
RECURSIVE PatchPath(_, _)
PatchPath(path, o) ==
    IF path = <<>> THEN <<>>
    ELSE IF MatchesAtStart(path)
    THEN LET name == UpToSlash(Drop(path, 2)) IN
         PatchedSegment(o, name) \o PatchPath(Drop(path, 2 + Len(name)), o)
    ELSE <<Head(path)>> \o PatchPath(Tail(path), o)

\* b.o.AddOperation(method, path, op)
AddOperation(d, method, path, o) == Put(d, <<method, path>>, o)

\* strings.ToLower of the route's method
HttpMethod(method) ==
    CASE method = "GET" -> "get"
      [] method = "POST" -> "post"
      [] OTHER -> method

\* the operation scan builds from the route's operator chain
Scanned(r) == ScanOperators(NewOperation(r.id), r.operators)

\* the document after scan added the operation
Document(d, r) ==
    AddOperation(d, HttpMethod(r.method), PatchPath(r.path, Scanned(r)), Scanned(r))

\* a route path is its segments, each after a '/'
RECURSIVE Join(_)
Join(segments) ==
    IF segments = <<>> THEN <<>>
    ELSE <<"/">> \o Head(segments) \o Join(Tail(segments))

\* number of segments of the route paths explored
MaxSegs == 2

Segments ==
    {<<>>, <<"u">>, <<":">>, <<":", "i">>, <<"*", "r">>, <<"u", ":", "i">>, <<":", ":", "i">>}

SegmentLists == UNION {[1 .. n -> Segments] : n \in 1 .. MaxSegs}

GetHandler == Handler("GET", FALSE, 0, FALSE, "", FALSE, <<>>, FALSE, <<>>)
PostHandler ==
    Handler("POST", FALSE, 0, FALSE, "", TRUE, <<"I", "t", "e", "m">>, TRUE,
            <<SentinelError(404, "not_found_a"), SentinelError(404, "not_found_b"),
              SentinelError(500, "internal")>>)

Item == <<"I", "t", "e", "m">>
GetNilContent == Handler("GET", FALSE, 0, FALSE, "", TRUE, <<>>, FALSE, <<>>)
GetAccepted ==
    Handler("GET", TRUE, 202, TRUE, "text/plain", TRUE, Item, TRUE,
            <<SentinelError(500, "internal"), SentinelError(404, "not_found_a"),
              SentinelError(500, "timeout")>>)
NoVerbErrors ==
    Handler("", TRUE, 202, FALSE, "", TRUE, Item, TRUE,
            <<SentinelError(404, "not_found_a")>>)

PathI == Field("ID", <<"i">>, "path", FALSE, FALSE)
PathR == Field("Rest", <<"r">>, "path", TRUE, FALSE)
QueryI == Field("ID", <<"i">>, "query", TRUE, FALSE)
BodyB == Field("Body", <<"b">>, "body", FALSE, TRUE)
BodyPlain == Field("Plain", <<"p">>, "body", FALSE, FALSE)
BodyOpaque == [Field("Opaque", <<"o">>, "body", FALSE, TRUE) EXCEPT !.type = <<>>]
Untagged == Field("X", <<"x">>, "", FALSE, FALSE)

OperatorChains ==
    {<<Operator(<<>>, FALSE, TRUE, GetHandler)>>,
     <<Operator(<<PathI>>, FALSE, TRUE, GetHandler)>>,
     <<Operator(<<QueryI>>, FALSE, TRUE, NoHandler)>>,
     <<Operator(<<PathI>>, FALSE, FALSE, NoHandler),
       Operator(<<PathR, BodyB>>, TRUE, TRUE, PostHandler)>>,
     <<Operator(<<QueryI, PathR>>, FALSE, TRUE, PostHandler)>>,
     <<Operator(<<PathI, Untagged>>, FALSE, TRUE, GetHandler)>>,
     <<Operator(<<BodyB>>, FALSE, TRUE, GetNilContent)>>,
     <<Operator(<<BodyPlain>>, TRUE, TRUE, GetAccepted)>>,
     <<Operator(<<BodyOpaque>>, TRUE, TRUE, NoVerbErrors)>>,
     <<Operator(<<BodyPlain, BodyB>>, TRUE, TRUE, GetHandler)>>}

Routes ==
    {[id |-> "op", method |-> m, segments |-> segs, path |-> Join(segs), operators |-> ops] :
        m \in {"GET"}, segs \in SegmentLists, ops \in OperatorChains}

Scan(r) ==
    /\ spc = "ready"
    /\ route' = r
    /\ op' = Scanned(r)
    /\ IF Scanned(r).panic = <<>>
       THEN doc' = Document(doc, r) /\ spc' = "scanned"
       ELSE doc' = doc /\ spc' = "panicked"
    /\ UNCHANGED <<envVars, schemas, lastReg, build, rec>>

NoRoute == [id |-> "", method |-> "", segments |-> <<>>, path |-> <<>>, operators |-> <<>>]

\* number of routes of the routers explored
MaxRoutes == 3

YUntagged == Field("Y", <<"y">>, "", FALSE, FALSE)

\* the routes of the routers FromRouter is handed
BuildRoutes ==
    {[id |-> "list", method |-> "GET", segments |-> <<<<"u">>>>, path |-> Join(<<<<"u">>>>),
      operators |-> <<Operator(<<QueryI>>, FALSE, TRUE, GetHandler)>>],
     [id |-> "create", method |-> "POST", segments |-> <<<<"u">>>>, path |-> Join(<<<<"u">>>>),
      operators |-> <<Operator(<<BodyB>>, TRUE, TRUE, PostHandler)>>],
     [id |-> "get", method |-> "GET", segments |-> <<<<"u">>, <<":", "i">>>>,
      path |-> Join(<<<<"u">>, <<":", "i">>>>),
      operators |-> <<Operator(<<PathI, Untagged>>, FALSE, TRUE, GetHandler)>>],
     [id |-> "update", method |-> "POST", segments |-> <<<<"u">>, <<":", "i">>>>,
      path |-> Join(<<<<"u">>, <<":", "i">>>>),
      operators |-> <<Operator(<<PathI>>, FALSE, FALSE, NoHandler),
                      Operator(<<YUntagged, BodyB>>, TRUE, TRUE, PostHandler)>>]}

\* r.Routes()
RouteLists == UNION {[1 .. n -> BuildRoutes] : n \in 0 .. MaxRoutes}

NoRec == [m |-> {}, calls |-> <<>>]

NoBuild == [routes |-> <<>>, next |-> 0, scanned |-> <<>>, returned |-> FALSE, panic |-> <<>>]

\* one turn of FromRouter's loop: b.scan(routes[i]), its panic ending the call
FromRouterScan ==
    /\ spc = "building"
    /\ build.next <= Len(build.routes)
    /\ route' = build.routes[build.next]
    /\ op' = Scanned(build.routes[build.next])
    /\ IF Scanned(build.routes[build.next]).panic = <<>>
       THEN /\ doc' = Document(doc, build.routes[build.next])
            /\ spc' = spc
            /\ build' = [build EXCEPT !.next = build.next + 1,
                                      !.scanned = Append(build.scanned, build.next)]
       ELSE /\ doc' = doc
            /\ spc' = "panicked"
            /\ build' = [build EXCEPT !.scanned = Append(build.scanned, build.next),
                                      !.panic = Scanned(build.routes[build.next]).panic]
    /\ UNCHANGED <<envVars, schemas, lastReg, rec>>

\* return b.o
FromRouterReturn ==
    /\ spc = "building"
    /\ build.next > Len(build.routes)
    /\ spc' = "built"
    /\ build' = [build EXCEPT !.returned = TRUE]
    /\ UNCHANGED <<envVars, schemas, lastReg, route, op, doc, rec>>

\* number of concurrent Record calls explored
MaxCallers == 3

TypeRefs == {"T", "U"}

\* the calls of Record in flight, none of which has started
CallLists ==
    UNION {[1 .. n -> {[typeRef |-> t, pc |-> "start", ok |-> FALSE] : t \in TypeRefs}] :
              n \in 1 .. MaxCallers}

\* _, ok := b.m.Load(typeRef)
RecordLoad(i) ==
    /\ spc = "recording"
    /\ rec.calls[i].pc = "start"
    /\ rec' = [rec EXCEPT !.calls[i].pc = "loaded",
                          !.calls[i].ok = rec.calls[i].typeRef \in rec.m]
    /\ UNCHANGED <<envVars, schemas, lastReg, route, op, doc, spc, build>>

\* return ok, the deferred b.m.Store(typeRef, true) running as the call returns
RecordReturn(i) ==
    /\ spc = "recording"
    /\ rec.calls[i].pc = "loaded"
    /\ rec' = [rec EXCEPT !.calls[i].pc = "done",
                          !.m = rec.m \cup {rec.calls[i].typeRef}]
    /\ UNCHANGED <<envVars, schemas, lastReg, route, op, doc, spc, build>>

ScannerIdle ==
    /\ build = NoBuild
    /\ rec = NoRec
    /\ schemas = EmptyMap
    /\ lastReg = NoReg
    /\ route = NoRoute
    /\ op = NewOperation("")
    /\ doc = EmptyMap
    /\ spc = "idle"

EnvelopeIdle ==
    /\ v = NilValue
    /\ meta = EmptyMap
    /\ cookies = <<>>
    /\ location = NoLoc
    /\ contentType = ""
    /\ statusCode = 0
    /\ rw = NewResponseWriter
    /\ ret = "pending"
    /\ pc = "idle"
    /\ entry = NoEntry
    /\ hist = NoHistory

\* Wrap: resp := &response[T]{v: v}
Init ==
    /\ v \in Values
    /\ meta = EmptyMap
    /\ cookies = <<>>
    /\ location = NoLoc
    /\ contentType = ""
    /\ statusCode = 0
    /\ rw = NewResponseWriter
    /\ ret = "pending"
    /\ pc = "wrapped"
    /\ entry = NoEntry
    /\ hist = NoHistory
    /\ ScannerIdle

Next ==
    \/ \E code \in StatusCodes : SetStatusCode(code)
    \/ \E ct \in ContentTypes : SetContentType(ct)
    \/ \E loc \in Locations : SetLocation(loc)
    \/ \E key \in MetaKeys, values \in MetaValues : SetMetadata(key, values)
    \/ \E list \in CookieLists : SetCookies(list)
    \/ \E method \in Methods, result \in {"nil", "ErrDelegate"} : Delegate(method, result)
    \/ \E method \in Methods, order \in Orders(meta), outcome \in Outcomes :
          WriteResponse(method, order, outcome)

Spec == Init /\ [][Next]_vars

\* the schema registry alone
InitRegistry ==
    /\ EnvelopeIdle
    /\ build = NoBuild
    /\ rec = NoRec
    /\ schemas = EmptyMap
    /\ lastReg = NoReg
    /\ route = NoRoute
    /\ op = NewOperation("")
    /\ doc = EmptyMap
    /\ spc = "registry"

NextRegistry == \E name \in ShortNames, s \in RegistrySchemas : RegisterSchema(name, s)

SpecRegistry == InitRegistry /\ [][NextRegistry]_vars

\* the scan of one route
InitScan ==
    /\ EnvelopeIdle
    /\ build = NoBuild
    /\ rec = NoRec
    /\ schemas = EmptyMap
    /\ lastReg = NoReg
    /\ route = NoRoute
    /\ op = NewOperation("")
    /\ doc = EmptyMap
    /\ spc = "ready"

NextScan == \E r \in Routes : Scan(r)

SpecScan == InitScan /\ [][NextScan]_vars

\* FromRouter over a route list
InitBuild ==
    /\ EnvelopeIdle
    /\ schemas = EmptyMap
    /\ lastReg = NoReg
    /\ route = NoRoute
    /\ op = NewOperation("")
    /\ doc = EmptyMap
    /\ spc = "building"
    /\ build \in {[NoBuild EXCEPT !.routes = rs, !.next = 1] : rs \in RouteLists}
    /\ rec = NoRec

NextBuild == FromRouterScan \/ FromRouterReturn

SpecBuild == InitBuild /\ [][NextBuild]_vars

\* concurrent calls of Record on one scanner
InitRecord ==
    /\ EnvelopeIdle
    /\ schemas = EmptyMap
    /\ lastReg = NoReg
    /\ route = NoRoute
    /\ op = NewOperation("")
    /\ doc = EmptyMap
    /\ spc = "recording"
    /\ build = NoBuild
    /\ rec \in {[NoRec EXCEPT !.calls = cs] : cs \in CallLists}

NextRecord == \E i \in 1 .. MaxCallers : (i \in DOMAIN rec.calls) /\ (RecordLoad(i) \/ RecordReturn(i))

SpecRecord == InitRecord /\ [][NextRecord]_vars

(***************************************************************************)
(* Properties of the envelope and the dispatcher                           *)
(***************************************************************************)
\* WriteResponse returned and did not delegate
Dispatched == pc = "returned" /\ ~IsResponseWriter(entry.v)

\* the status codes passed to the transport
StatusWritten == {rw.log[i].code : i \in {j \in DOMAIN rw.log : rw.log[j].ev = "WriteHeader"}}

EventsWritten == {rw.log[i].ev : i \in DOMAIN rw.log}

BodyEvents == {"Into", "IntoFailed", "Copy", "CopyFailed", "Close", "Encode", "EncodeFailed"}

\* C1: a non-zero status code set explicitly on the envelope is the status
\* code written to the transport for every value that is not a
\* self-describing responder and triggers no redirect, errors and values
\* with the status-code capability included.
C1_ExplicitStatusWins ==
    (/\ Dispatched
     /\ entry.statusCode # 0
     /\ entry.location = NoLoc
     /\ ~IsRedirectDescriber(entry.v))
    => StatusWritten \subseteq {entry.statusCode}

\* the status the inference step is expected to give
DefaultStatus == IF entry.v.nil THEN 204 ELSE IF entry.method = "POST" THEN 201 ELSE 200

\* C2: for a wrapped non-error value whose status is still unset after the
\* status-capability step, the resolved status is 204 for nil, 201 for a
\* non-nil value on POST and 200 for a non-nil value on any other method.
C2_DefaultStatus ==
    (/\ Dispatched
     /\ ~IsError(entry.v)
     /\ entry.statusCode = 0
     /\ (IsStatusCodeDescriber(entry.v) => entry.v.sc = 0))
    => /\ statusCode = DefaultStatus
       /\ StatusWritten \subseteq {DefaultStatus}
       /\ (ret = "nil" => StatusWritten = {DefaultStatus})

C2_Witness ==
    /\ Dispatched
    /\ entry.v = DataStatus0
    /\ entry.statusCode = 0
    /\ entry.method = "POST"
    /\ StatusWritten = {201}

\* C3: without an explicit location, a value with the redirect capability
\* is answered by a redirect to its location with its status, whatever
\* status was set or inferred before, and no body step runs; with an
\* explicit location the redirect goes there and the location of the value
\* is not adopted.
C3_Redirect ==
    /\ (Dispatched /\ entry.location = NoLoc /\ ~IsError(entry.v)
           /\ IsRedirectDescriber(entry.v))
       => /\ HdrLocation \in DOMAIN rw.header
          /\ rw.header[HdrLocation] = <<entry.v.loc>>
          /\ location = entry.v.loc
          /\ StatusWritten = {entry.v.sc}
          /\ EventsWritten \cap BodyEvents = {}
          /\ rw.body = <<>>
          /\ ret = "nil"
    /\ (Dispatched /\ entry.location # NoLoc)
       => /\ HdrLocation \in DOMAIN rw.header
          /\ rw.header[HdrLocation] = <<entry.location>>
          /\ location = entry.location
          /\ EventsWritten \cap BodyEvents = {}
          /\ rw.body = <<>>
          /\ ret = "nil"

C3_Witness ==
    /\ Dispatched
    /\ entry.v = Redirector
    /\ entry.location = NoLoc
    /\ entry.statusCode = 202
    /\ rw.header[HdrLocation] = <<"/v">>
    /\ StatusWritten = {302}

\* C4: Meta()[k] is the value list of the last SetMetadata call for k, keys
\* never set are absent, and Cookies() is the list of the last SetCookies
\* call.
C4_LastCallReplaces ==
    /\ DOMAIN Meta = DOMAIN hist.meta
    /\ \A k \in DOMAIN hist.meta : Meta[k] = hist.meta[k]
    /\ Cookies = hist.cookies

C4_Witness ==
    /\ pc = "wrapped"
    /\ hist.replacedMeta
    /\ hist.replacedCookies
    /\ Cookies # <<>>
    /\ Meta # EmptyMap

\* C5: once WriteResponse has returned, whatever the exit path, the
\* envelope holds no value and a read of it does not observe the original.
C5_ValueReleased ==
    pc = "returned" => v = NilValue /\ Underlying.panics

C5_Witness ==
    /\ pc = "returned"
    /\ ~entry.v.nil
    /\ ret = "ErrCopy"
    /\ v = NilValue

\* the envelope resolved to 204 and redirects nowhere
NoContentDispatched == Dispatched /\ statusCode = 204 /\ location = NoLoc

\* C6 as stated: a response resolved to 204 without location is the status
\* line only, with no body and no Content-Type header, whatever content
\* type, metadata or value the envelope carries.
C6_NoContentTypeAt204 ==
    NoContentDispatched
    => /\ rw.body = <<>>
       /\ EventsWritten \cap BodyEvents = {}
       /\ StatusWritten = {204}
       /\ HdrContentType \notin DOMAIN rw.header

\* C6 amended: a response resolved to 204 without location has no body,
\* and a Content-Type header only when a metadata key canonicalizes to
\* Content-Type, which then holds the values of a metadata entry; the
\* explicit content type is never written.
C6_NoContentTypeAt204Amended ==
    NoContentDispatched
    => /\ rw.body = <<>>
       /\ EventsWritten \cap BodyEvents = {}
       /\ StatusWritten = {204}
       /\ HdrContentType \in DOMAIN rw.header
          => \E k \in DOMAIN meta :
                /\ CanonicalMIMEHeaderKey(k) = HdrContentType
                /\ rw.header[HdrContentType] = meta[k]

C6_Witness ==
    /\ NoContentDispatched
    /\ ~entry.v.nil
    /\ contentType # ""
    /\ KeyLower \in DOMAIN meta
    /\ HdrContentType \notin DOMAIN rw.header

\* C7: an error value is converted by the error-to-status collaborator and
\* status, redirect check, body shape and encoding all act on the converted
\* status error; the error is never what WriteResponse returns, the
\* response carries the status of the converted error.
C7_ErrorConverted ==
    (Dispatched /\ IsError(entry.v))
    => /\ ret \in {"nil", "ErrNewTransformer", "ErrEncode"}
       /\ statusCode = FromErr(entry.v).sc
       /\ StatusWritten \subseteq {FromErr(entry.v).sc}
       /\ \A i \in DOMAIN rw.body : rw.body[i] = FromErr(entry.v)
       /\ EventsWritten \cap {"Into", "IntoFailed", "Copy", "CopyFailed", "Close"} = {}
       /\ (ret = "nil" => StatusWritten = {FromErr(entry.v).sc})

C7_Witness ==
    /\ Dispatched
    /\ entry.v = ErrStream
    /\ ret = "nil"
    /\ rw.body = <<FromErr(ErrStream)>>
    /\ StatusWritten = {500}

\* headers the dispatcher writes itself after the metadata
OwnHeaders == {HdrContentType, HdrSetCookie, HdrLocation}

\* C8: the header written under a canonical name holds the values of the
\* latest SetMetadata call for that key, compared without regard to letter
\* case.
C8_LatestMetadataPerCanonicalKey ==
    Dispatched
    => \A c \in DOMAIN hist.lastKey \ OwnHeaders :
          /\ c \in DOMAIN rw.header
          /\ rw.header[c] = hist.meta[hist.lastKey[c]]

(***************************************************************************)
(* Properties of the scanner                                               *)
(***************************************************************************)
\* C9: an entry of components.schemas never changes once it is there: a
\* later registration under its name is dropped, and a registration adds
\* at most the entry of its own name, holding the schema registered.
C9_FirstRegistrationWins ==
    [][/\ \A k \in DOMAIN schemas : k \in DOMAIN schemas' /\ schemas'[k] = schemas[k]
       /\ \A k \in DOMAIN schemas' \ DOMAIN schemas :
             /\ DOMAIN schemas' = DOMAIN schemas \cup {k}
             /\ schemas'[k] = lastReg'.schema]_vars

C9_Witness ==
    /\ lastReg.held
    /\ lastReg.prior # lastReg.schema
    /\ \E k \in DOMAIN schemas : schemas[k] = lastReg.prior
    /\ Cardinality(DOMAIN schemas) >= 2

\* the names the operators of the route declare as path parameters
DeclaredPathNames(r) ==
    UNION {{r.operators[i].fields[j].display :
               j \in {x \in DOMAIN r.operators[i].fields :
                         r.operators[i].fields[x].in = "path"}} :
           i \in DOMAIN r.operators}

\* a segment as the document is expected to show it
ExpectedSegment(seg, names) ==
    IF Len(seg) >= 2 /\ seg[1] \in {":", "*"}
    THEN IF Tail(seg) \in names THEN <<"{">> \o Tail(seg) \o <<"}">> ELSE <<"0">>
    ELSE seg

ExpectedSegments(segs, names) == [i \in DOMAIN segs |-> ExpectedSegment(segs[i], names)]

\* C10: a segment made of a marker and a name is emitted as {name} exactly
\* when some operator of the chain declares a path parameter of that name,
\* and as 0 otherwise; every other segment is emitted unchanged.
C10_PathTranslation ==
    spc = "scanned"
    => DOMAIN doc =
         {<<HttpMethod(route.method),
            Join(ExpectedSegments(route.segments, DeclaredPathNames(route)))>>}

C10_Witness ==
    /\ spc = "scanned"
    /\ route.segments = <<<<":", "i">>, <<"*", "r">>>>
    /\ DeclaredPathNames(route) = {<<"i">>}
    /\ DOMAIN doc = {<<"get", <<"/", "{", "i", "}", "/", "0">>>>}

\* the handler of the terminal operator of a route
Terminal(r) == r.operators[Len(r.operators)].handler

\* the status codes the declared errors of a handler map to
ErrorCodes(h) == {h.errors[i].status : i \in DOMAIN h.errors}

\* the summaries of the declared errors at a status code, in declaration order
ExpectedSummaries(h, code) ==
    LET at == SelectSeq(h.errors, LAMBDA e : e.status = code)
    IN [i \in DOMAIN at |-> at[i].summary]

\* C11: for a terminal handler with a verb and declared errors, the
\* operation has, next to the success entry, exactly one entry per distinct
\* status code of the errors, whose extension lists exactly the summaries of
\* the errors at that code.
C11_ErrorResponsesPerStatus ==
    (spc = "scanned" /\ Terminal(route).method # "" /\ Terminal(route).hasErrors)
    => /\ ErrorCodes(Terminal(route)) \subseteq DOMAIN op.responses
       /\ Cardinality(DOMAIN op.responses) = 1 + Cardinality(ErrorCodes(Terminal(route)))
       /\ \A c \in ErrorCodes(Terminal(route)) :
             op.responses[c].returnErrors = ExpectedSummaries(Terminal(route), c)
       /\ \A c \in DOMAIN op.responses \ ErrorCodes(Terminal(route)) :
             op.responses[c].returnErrors = <<>>

C11_Witness ==
    /\ spc = "scanned"
    /\ Terminal(route) = PostHandler
    /\ DOMAIN op.responses = {201, 404, 500}
    /\ op.responses[404].returnErrors = <<"not_found_a", "not_found_b">>
    /\ op.responses[500].returnErrors = <<"internal">>

\* the fields without location of a route, with the operation they belong to
UntaggedFields(r) ==
    UNION {{<<r.operators[i].fields[j].name, r.id>> :
               j \in {k \in DOMAIN r.operators[i].fields : r.operators[i].fields[k].in = ""}} :
           i \in DOMAIN r.operators}

\* C12: a route list with a field that lacks its location never yields a
\* document: FromRouter ends in a panic naming the field and the operation,
\* having scanned the routes up to the first offending one and none after it,
\* wherever that route stands in the list.
C12_FailFast ==
    /\ (spc = "built")
       => /\ \A i \in DOMAIN build.routes : UntaggedFields(build.routes[i]) = {}
          /\ build.scanned = [i \in DOMAIN build.routes |-> i]
    /\ (spc = "panicked")
       => /\ ~build.returned
          /\ \E i \in DOMAIN build.routes :
                /\ UntaggedFields(build.routes[i]) # {}
                /\ \A j \in 1 .. i - 1 : UntaggedFields(build.routes[j]) = {}
                /\ build.scanned = [j \in 1 .. i |-> j]
                /\ \E fo \in UntaggedFields(build.routes[i]) :
                      build.panic = <<"missing tag in", fo[1], fo[2]>>
    /\ (spc = "building" /\ build.next > Len(build.routes))
       => \A i \in DOMAIN build.routes : UntaggedFields(build.routes[i]) = {}

C12_Witness ==
    /\ spc = "panicked"
    /\ Len(build.routes) = 3
    /\ build.scanned = <<1, 2>>
    /\ build.panic = <<"missing tag in", "Y", "update">>
    /\ doc # EmptyMap

\* C13: once every call of Record has returned, exactly one of the calls
\* made with a type reference returned false, however the calls interleaved.
C13_RecordAtomic ==
    (spc = "recording" /\ \A i \in DOMAIN rec.calls : rec.calls[i].pc = "done")
    => \A t \in {rec.calls[i].typeRef : i \in DOMAIN rec.calls} :
          Cardinality({i \in DOMAIN rec.calls :
                          rec.calls[i].typeRef = t /\ ~rec.calls[i].ok}) = 1

\* the fields of the operators of a route in the order scan walks them, each
\* with whether its owning type documents its fields
RECURSIVE FieldsOf(_)
FieldsOf(operators) ==
    IF operators = <<>> THEN <<>>
    ELSE [i \in DOMAIN Head(operators).fields |->
             [f |-> Head(operators).fields[i], docer |-> Head(operators).docer]]
         \o FieldsOf(Tail(operators))

BodyFields(r) == SelectSeq(FieldsOf(r.operators), LAMBDA x : x.f.in = "body")

\* the body field whose media type the request body ends with
LastBody(r) == BodyFields(r)[Len(BodyFields(r))]

\* C14: the media type of a body field that has a structural schema and
\* that its owning type documents carries allOf(structural schema,
\* description-only fragment); whatever the documentation, the structural
\* schema is never replaced by the description alone.
C14_DocumentedBodyIsAllOf ==
    (spc = "scanned" /\ BodyFields(route) # <<>>)
    => /\ op.hasBody
       /\ "application/json" \in DOMAIN op.requestBody
       /\ (LastBody(route).f.type # <<>>)
          => /\ op.requestBody["application/json"].kind # "description"
             /\ (LastBody(route).docer /\ LastBody(route).f.documented)
                => op.requestBody["application/json"] =
                      [kind |-> "allOf",
                       parts |-> <<[kind |-> "type", of |-> LastBody(route).f.type],
                                   [kind |-> "description",
                                    text |-> <<"about", LastBody(route).f.name>>]>>]
             /\ ~(LastBody(route).docer /\ LastBody(route).f.documented)
                => op.requestBody["application/json"] =
                      [kind |-> "type", of |-> LastBody(route).f.type]

C14_Witness ==
    /\ spc = "scanned"
    /\ BodyFields(route) # <<>>
    /\ LastBody(route).f = BodyB
    /\ LastBody(route).docer
    /\ op.requestBody["application/json"].kind = "allOf"
    /\ Len(route.operators) = 2

\* the content type the success response is documented under
EffectiveContentType(h) == IF h.hasContentType THEN h.contentType ELSE "application/json"

\* the status code the success response is documented under
EffectiveStatus(h) ==
    IF h.hasStatus THEN h.status ELSE IF h.method = "POST" THEN 201 ELSE 200

\* C15: the success response of a handler with a verb has a content entry
\* under the effective content type: the schema of the payload type when the
\* handler declares one, an empty media type when it declares none or
\* declares nil.
C15_SuccessContentAlways ==
    (spc = "scanned" /\ Terminal(route).method # "")
    => /\ EffectiveStatus(Terminal(route)) \in DOMAIN op.responses
       /\ EffectiveContentType(Terminal(route)) \in
             DOMAIN op.responses[EffectiveStatus(Terminal(route))].content
       /\ op.responses[EffectiveStatus(Terminal(route))]
             .content[EffectiveContentType(Terminal(route))] =
          [schema |-> IF Terminal(route).hasContent /\ Terminal(route).content # <<>>
                      THEN [kind |-> "type", of |-> Terminal(route).content]
                      ELSE [kind |-> "none"]]

\* C16: a terminal handler without a verb leaves the operation without any
\* response, success or error; one with a verb gives it exactly one success
\* entry, under the code the handler declares, else 201 for POST, else 200.
C16_ResponsesNeedVerb ==
    (spc = "scanned")
    => /\ (Terminal(route).method = "") => op.responses = EmptyMap
       /\ (Terminal(route).method # "")
          => /\ EffectiveStatus(Terminal(route)) \in DOMAIN op.responses
             /\ {c \in DOMAIN op.responses : op.responses[c].returnErrors = <<>>} =
                   {EffectiveStatus(Terminal(route))}

C16_Witness ==
    /\ spc = "scanned"
    /\ Terminal(route) = NoVerbErrors
    /\ op.tagged
    /\ op.responses = EmptyMap
    /\ op.hasBody

\* the call was handed to the wrapped value
Delegated == pc = "returned" /\ IsResponseWriter(entry.v)

\* C17: when the wrapped value writes its own response, WriteResponse
\* returns what the value's WriteResponse returned, the transport carries
\* nothing but what the value did with it, and the explicit status, location,
\* content type, metadata and cookies are as they were before the call.
C17_DelegatesEntirely ==
    Delegated
    => /\ ret = entry.delegate
       /\ rw.header = EmptyMap
       /\ rw.body = <<>>
       /\ rw.log = <<Event("Delegate", <<>>, 0)>>
       /\ statusCode = entry.statusCode
       /\ location = entry.location
       /\ contentType = entry.contentType
       /\ meta = entry.meta
       /\ cookies = entry.cookies

C17_Witness ==
    /\ Delegated
    /\ ret = "ErrDelegate"
    /\ statusCode # 0
    /\ location # NoLoc
    /\ meta # EmptyMap
    /\ cookies # <<>>

\* how often, and where, an event stands in the log of the transport
Count(ev) == Cardinality({i \in DOMAIN rw.log : rw.log[i].ev = ev})
Positions(evs) == {i \in DOMAIN rw.log : rw.log[i].ev \in evs}

\* the dispatch reached the body step with a byte stream
StreamBody ==
    /\ Dispatched
    /\ Converted(entry.v).shape = "reader"
    /\ location = NoLoc
    /\ statusCode # StatusNoContent

\* C18: a byte stream that reaches the body step is copied exactly once and,
\* when it can be closed, closed exactly once, after the copy, whether the
\* copy succeeded or failed; a failed copy, self-serialization, codec
\* construction or encode is what WriteResponse returns, and no body step
\* runs twice.
C18_CopyOnceCloseOnce ==
    Dispatched
    => /\ Cardinality(Positions(BodyEvents \ {"Close"})) <= 1
       /\ Count("Close") <= 1
       /\ StreamBody
          => /\ Count("Copy") + Count("CopyFailed") = 1
             /\ Count("Close") = IF Converted(entry.v).closer THEN 1 ELSE 0
             /\ \A i \in Positions({"Close"}) :
                   /\ i = Len(rw.log)
                   /\ \A j \in Positions({"Copy", "CopyFailed"}) : j < i
       /\ ~StreamBody => Positions({"Copy", "CopyFailed", "Close"}) = {}
       /\ (ret = "ErrCopy") <=> (Count("CopyFailed") = 1)
       /\ (ret = "ErrInto") <=> (Count("IntoFailed") = 1)
       /\ (ret = "ErrEncode") <=> (Count("EncodeFailed") = 1)
       /\ (ret = "ErrNewTransformer") => Positions(BodyEvents \cup {"WriteHeader"}) = {}
       /\ ret \in {"nil", "ErrCopy", "ErrInto", "ErrEncode", "ErrNewTransformer"}
       /\ (ret = "nil") => Positions({"CopyFailed", "IntoFailed", "EncodeFailed"}) = {}

C18_Witness ==
    /\ StreamBody
    /\ Converted(entry.v).closer
    /\ ret = "ErrCopy"
    /\ Len(rw.log) >= 2
    /\ rw.log[Len(rw.log)].ev = "Close"
    /\ rw.log[Len(rw.log) - 1].ev = "CopyFailed"

\* the cookies of the envelope that are not nil
NonNilCookies == {i \in DOMAIN entry.cookies : ~entry.cookies[i].nil}

\* the dispatch went past the redirect and the 204 return
BodyPath == Dispatched /\ location = NoLoc /\ statusCode # StatusNoContent

\* C19: a dispatch by WriteResponse itself writes the status line at most
\* once (exactly once on the redirect and 204 paths), after a header was set
\* for every metadata key and every non-nil cookie and, on the body paths,
\* for the explicit content type; no header is set after the status line.
C19_StatusLineAfterHeaders ==
    Dispatched
    => /\ Count("WriteHeader") <= 1
       /\ ~BodyPath => Count("WriteHeader") = 1
       /\ \A i \in Positions({"WriteHeader"}) :
             /\ \A j \in Positions({"Header"}) : j < i
             /\ \A k \in DOMAIN entry.meta :
                   \E j \in 1 .. i - 1 :
                      rw.log[j] = Event("Header", CanonicalMIMEHeaderKey(k), 0)
             /\ Cardinality({j \in 1 .. i - 1 : rw.log[j] = Event("Header", HdrSetCookie, 0)})
                   = Cardinality(NonNilCookies)
             /\ (BodyPath /\ entry.contentType # "")
                => \E j \in 1 .. i - 1 : rw.log[j] = Event("Header", HdrContentType, 0)

C19_Witness ==
    /\ BodyPath
    /\ Count("WriteHeader") = 1
    /\ entry.meta # EmptyMap
    /\ NonNilCookies # {}
    /\ Cardinality(NonNilCookies) < Len(entry.cookies)
    /\ entry.contentType # ""
    /\ Converted(entry.v).shape = "reader"

\* C20: after RegisterSchema(RefString(t), s) the registry has an entry
\* under exactly the short name the naming option gave t: the key the
\* registration computed is that name, none of its leading characters lost.
C20_KeyIsShortName ==
    (lastReg.calls > 0)
    => /\ RegistryKey(RefString(lastReg.name)) = lastReg.name
       /\ lastReg.name \in DOMAIN schemas

====
